---- MODULE Spec2Model ----
(***************************************************************************)
(* FABRIK inverse-kinematics solver (solver.py): FabrikSolver2D with its   *)
(* Segment2D chain, the reachability and margin tests, the backward and    *)
(* forward sweep of iterate, and the convergence loop of compute.          *)
(*                                                                         *)
(* Numbers.  The solver computes in IEEE doubles.  The model computes in   *)
(* integers and covers the configurations on which the doubles are exact:  *)
(* integer lengths, cumulative angle 0 (cos = 1.0 and sin = 0.0 exactly),  *)
(* and targets on the horizontal line through the base.  There every norm  *)
(* is an integer, every unit vector is (1,0) or (-1,0), and every sum and  *)
(* product is an integer far below 2^53, so the integer result IS the      *)
(* double result.  The one non-number the doubles produce on these inputs, *)
(* NaN (numpy's 0/0), is modelled by the flag `nan` of a point.            *)
(***************************************************************************)
EXTENDS Integers, Sequences, FiniteSets

\* ---------------------------------------------------------------- bounds
MaxSegs == 3          \* segments appended to one solver
SweepMod == 2         \* the sweeps of a running compute are counted modulo this

Lengths == {150, 120, 100, 0, -50}   \* addSegment's length argument
Angles == {0}                        \* addSegment's relative angle (degrees)
TargetXs == {-100, 170, 200, 270, 370, 500}
Targets == {<<x, 0>> : x \in TargetXs}
BasePoints == {<<0, 0>>, <<20, 0>>}

\* marginOfError = 0.01 = MarginNum / MarginDen
MarginNum == 1
MarginDen == 100

VARIABLES
    basePoint,     \* self.basePoint
    segments,      \* self.segments: sequence of [length, angle, point]
    armLength,     \* self.armLength
    pc,            \* "idle", or "loop": inside compute's while loop
    sweeps,        \* iterate calls made by the running compute, modulo SweepMod
    call,          \* the operation called last: [op, x, y]
    ret,           \* what it returned or raised; "none" while it runs
    pre,           \* the solver's fields when that operation was called
    prevTrue       \* the call before it, when that was a compute that returned True

vars == <<basePoint, segments, armLength, pc, sweeps, call, ret, pre, prevTrue>>

\* ------------------------------------------------------------ arithmetic
\* A 2D double vector: numeric, or NaN in both components.
Vec(x, y) == [nan |-> FALSE, x |-> x, y |-> y]
NaN == [nan |-> TRUE, x |-> 0, y |-> 0]

VSub(a, b) == IF a.nan \/ b.nan THEN NaN ELSE Vec(a.x - b.x, a.y - b.y)
VAdd(a, b) == IF a.nan \/ b.nan THEN NaN ELSE Vec(a.x + b.x, a.y + b.y)
VScale(a, k) == IF a.nan THEN NaN ELSE Vec(a.x * k, a.y * k)

\* The integer square root of n by bisection of lo..hi.  (Here and below a
\* value is bound by \in where it is used more than once, so that it is
\* computed once.)
RECURSIVE SqrtBetween(_, _, _)
SqrtBetween(n, lo, hi) ==
    IF lo >= hi THEN lo
    ELSE CHOOSE r \in {IF mid * mid <= n THEN SqrtBetween(n, mid, hi)
                                         ELSE SqrtBetween(n, lo, mid - 1) :
                            mid \in {(lo + hi + 1) \div 2}} : TRUE

Abs(n) == IF n < 0 THEN -n ELSE n

\* np.linalg.norm of a numeric vector (exact: the sum is a perfect square).
Norm(v) ==
    CHOOSE r \in {SqrtBetween(w.x * w.x + w.y * w.y, 0, Abs(w.x) + Abs(w.y)) :
                    w \in {v}} : TRUE

\* a NaN norm compares False with everything
NormLess(v, num, den) == ~v.nan /\ Norm(v) * den < num

unitVector(vector) ==
    IF vector.nan THEN NaN
    ELSE CHOOSE u \in {IF norm = 0 THEN NaN
                        ELSE Vec(vector.x \div norm, vector.y \div norm) :
                            norm \in {Norm(vector)}} : TRUE

CosDeg(angle) == CASE angle = 0 -> 1
SinDeg(angle) == CASE angle = 0 -> 0

\* ------------------------------------------------------------- Segment2D
Segment2D(reference, length, angle) ==
    [angle |-> angle,
     length |-> length,
     point |-> VAdd(reference, Vec(CosDeg(angle) * length, SinDeg(angle) * length))]

\* ------------------------------------------------------- FabrikSolver2D
\* isReachable with the boundary let in: distance <= armLength
isReachableInclusive(x, y) ==
    NormLess(VSub(basePoint, Vec(x, y)), armLength + 1, 1)

isReachable(x, y) ==
    NormLess(VSub(basePoint, Vec(x, y)), armLength, 1)

inMarginOfError(x, y) ==
    NormLess(VSub(segments[Len(segments)].point, Vec(x, y)), MarginNum, MarginDen)

\* One pass of the backward loop: the code's i runs len-1 .. 1 and writes
\* segments[i-1]; k is the 1-based index of the segment written.
BackwardStep(segs, k, target) ==
    LET anchor == IF k = Len(segs) - 1 THEN target ELSE segs[k + 1].point
    IN  [segs EXCEPT ![k].point =
            VAdd(VScale(unitVector(VSub(segs[k].point, anchor)),
                        segs[k + 1].length), anchor)]

\* Backward reaching, k = N-1 .. 1.
RECURSIVE Backward(_, _, _)
Backward(segs, k, target) ==
    IF k < 1 THEN segs
    ELSE CHOOSE r \in {Backward(s, k - 1, target) :
                            s \in {BackwardStep(segs, k, target)}} : TRUE

\* One pass of the forward loop, on the 1-based index k.
ForwardStep(segs, k, base, target) ==
    [segs EXCEPT ![k].point =
        IF k = 1
        THEN VAdd(VScale(unitVector(VSub(segs[k].point, base)),
                         segs[k].length), base)
        ELSE IF k = Len(segs)
        THEN VAdd(VScale(VScale(unitVector(VSub(segs[k - 1].point, target)),
                                segs[k].length), -1), segs[k - 1].point)
        ELSE VAdd(VScale(unitVector(VSub(segs[k].point, segs[k - 1].point)),
                         segs[k].length), segs[k - 1].point)]

\* Forward reaching, k = 1 .. N.
RECURSIVE Forward(_, _, _, _)
Forward(segs, k, base, target) ==
    IF k > Len(segs) THEN segs
    ELSE CHOOSE r \in {Forward(s, k + 1, base, target) :
                            s \in {ForwardStep(segs, k, base, target)}} : TRUE

iterate(segs, base, target) ==
    CHOOSE r \in {Forward(s, 1, base, target) :
                    s \in {Backward(segs, Len(segs) - 1, target)}} : TRUE

Fields == [basePoint |-> basePoint, segments |-> segments, armLength |-> armLength]

\* ----------------------------------------------------------------- Init
Init ==
    /\ basePoint \in {Vec(b[1], b[2]) : b \in BasePoints}
    /\ segments = << >>
    /\ armLength = 0
    /\ pc = "idle"
    /\ sweeps = 0
    /\ call = [op |-> "init", x |-> 0, y |-> 0]
    /\ ret = "none"
    /\ pre = [basePoint |-> basePoint, segments |-> << >>, armLength |-> 0]
    /\ prevTrue = [valid |-> FALSE, x |-> 0, y |-> 0]

\* The call that ends now was a compute that returned True.
ThisTrue ==
    IF call.op = "compute" /\ pc = "idle" /\ ret = "True"
    THEN [valid |-> TRUE, x |-> call.x, y |-> call.y]
    ELSE [valid |-> FALSE, x |-> 0, y |-> 0]

\* -------------------------------------------------------------- actions
addSegment(length, angle) ==
    /\ pc = "idle"
    /\ Len(segments) < MaxSegs
    /\ LET segment ==
            IF Len(segments) > 0
            THEN Segment2D(segments[Len(segments)].point, length,
                           angle + segments[Len(segments)].angle)
            ELSE Segment2D(basePoint, length, angle)
       IN  /\ armLength' = armLength + segment.length
           /\ segments' = Append(segments, segment)
    /\ call' = [op |-> "addSegment", x |-> length, y |-> angle]
    /\ ret' = "None"
    /\ pre' = Fields
    /\ prevTrue' = ThisTrue
    /\ UNCHANGED <<basePoint, pc, sweeps>>

CallIsReachable(x, y) ==
    /\ pc = "idle"
    /\ ret' = IF isReachable(x, y) THEN "True" ELSE "False"
    /\ call' = [op |-> "isReachable", x |-> x, y |-> y]
    /\ pre' = Fields
    /\ prevTrue' = ThisTrue
    /\ UNCHANGED <<basePoint, segments, armLength, pc, sweeps>>

\* self.segments[-1] on an empty list raises IndexError
CallInMarginOfError(x, y) ==
    /\ pc = "idle"
    /\ ret' = IF Len(segments) = 0 THEN "IndexError"
              ELSE IF inMarginOfError(x, y) THEN "True" ELSE "False"
    /\ call' = [op |-> "inMarginOfError", x |-> x, y |-> y]
    /\ pre' = Fields
    /\ prevTrue' = ThisTrue
    /\ UNCHANGED <<basePoint, segments, armLength, pc, sweeps>>

\* compute without the early return: the loop is entered whatever the target.
computeNoEarlyReturn(x, y) ==
    /\ pc = "idle"
    /\ IF Len(segments) = 0
       THEN /\ ret' = "IndexError"
            /\ pc' = "idle"
       ELSE /\ ret' = "none"
            /\ pc' = "loop"
    /\ sweeps' = 0
    /\ call' = [op |-> "compute", x |-> x, y |-> y]
    /\ pre' = Fields
    /\ prevTrue' = ThisTrue
    /\ UNCHANGED <<basePoint, segments, armLength>>

\* compute, lines 140-141: the reachability test on entry.  The while loop
\* that follows need not end, so each pass of it is a step of its own.
compute(x, y) ==
    /\ pc = "idle"
    /\ IF ~isReachable(x, y)
       THEN /\ ret' = "False"
            /\ pc' = "idle"
       ELSE /\ ret' = "none"
            /\ pc' = "loop"
    /\ sweeps' = 0
    /\ call' = [op |-> "compute", x |-> x, y |-> y]
    /\ pre' = Fields
    /\ prevTrue' = ThisTrue
    /\ UNCHANGED <<basePoint, segments, armLength>>

\* compute, lines 143-144: the loop condition is True and iterate runs.
computeLoop ==
    /\ pc = "loop"
    /\ ~inMarginOfError(call.x, call.y)
    /\ segments' = iterate(segments, basePoint, Vec(call.x, call.y))
    /\ sweeps' = (sweeps + 1) % SweepMod
    /\ call' = [call EXCEPT !.op = "iterate"]
    /\ UNCHANGED <<basePoint, armLength, pc, ret, pre, prevTrue>>

\* compute returning whether the arm had to move: False after no sweep.
computeReturnIfMoved ==
    /\ pc = "loop"
    /\ inMarginOfError(call.x, call.y)
    /\ ret' = IF call.op = "iterate" THEN "True" ELSE "False"
    /\ pc' = "idle"
    /\ sweeps' = 0
    /\ call' = [call EXCEPT !.op = "compute"]
    /\ UNCHANGED <<basePoint, segments, armLength, pre, prevTrue>>

\* compute, lines 143 and 146: the loop condition is False, return True.
computeReturn ==
    /\ pc = "loop"
    /\ inMarginOfError(call.x, call.y)
    /\ ret' = "True"
    /\ pc' = "idle"
    /\ sweeps' = 0
    /\ call' = [call EXCEPT !.op = "compute"]
    /\ UNCHANGED <<basePoint, segments, armLength, pre, prevTrue>>

Next ==
    \/ \E length \in Lengths, angle \in Angles : addSegment(length, angle)
    \/ \E t \in Targets : CallIsReachable(t[1], t[2])
    \/ \E t \in Targets : CallInMarginOfError(t[1], t[2])
    \/ \E t \in Targets : compute(t[1], t[2])
    \/ computeLoop
    \/ computeReturn

Spec == Init /\ [][Next]_vars

\* compute is a synchronous call: once inside it, the interpreter keeps
\* executing the loop and the return.
FairSpec == Spec /\ WF_vars(computeLoop) /\ WF_vars(computeReturn)

\* ------------------------------------------------------ claim vocabulary
Target == Vec(call.x, call.y)
N == Len(segments)
Joint(segs, base, i) == IF i = 0 THEN base ELSE segs[i].point
Pose(segs) == [i \in 1..Len(segs) |-> segs[i].point]
LengthsOf(segs) == [i \in 1..Len(segs) |-> segs[i].length]
AllPositive(segs) == \A i \in 1..Len(segs) : segs[i].length > 0

RECURSIVE SumLengths(_)
SumLengths(segs) ==
    IF Len(segs) = 0 THEN 0
    ELSE segs[Len(segs)].length + SumLengths(SubSeq(segs, 1, Len(segs) - 1))

\* squared distance of two numeric points
DistSq(a, b) == (a.x - b.x) * (a.x - b.x) + (a.y - b.y) * (a.y - b.y)

\* distance(a, b) = d, as doubles compare: never when a point is NaN
DistanceIs(a, b, d) == ~a.nan /\ ~b.nan /\ d >= 0 /\ DistSq(a, b) = d * d

\* distance(a, b) < marginOfError
WithinMargin(a, b) ==
    ~a.nan /\ ~b.nan
    /\ DistSq(a, b) * MarginDen * MarginDen < MarginNum * MarginNum

LengthsPreserved ==
    \A i \in 1..N :
        DistanceIs(Joint(segments, basePoint, i), Joint(segments, basePoint, i - 1),
                   segments[i].length)

Returned == call.op = "compute" /\ pc = "idle"
Swept == call.op = "iterate"

\* the 150/120/100 arm of the scenario, fully extended from (0,0)
ScenarioArm(f) ==
    /\ f.basePoint = Vec(0, 0)
    /\ LengthsOf(f.segments) = <<150, 120, 100>>
    /\ Pose(f.segments) = <<Vec(150, 0), Vec(270, 0), Vec(370, 0)>>

\* ------------------------------------------------------------------ C1
\* C1: a compute whose target lies strictly inside the reachable disk
\* (distance(base, target) < armLength - 1) of an arm with positive
\* lengths terminates, returns True, and leaves the last joint within
\* marginOfError of the target.
C1_Converges ==
    (pc = "loop" /\ AllPositive(segments)
        /\ NormLess(VSub(basePoint, Target), armLength - 1, 1))
    ~> (Returned /\ ret = "True" /\ WithinMargin(segments[N].point, Target))

\* ------------------------------------------------------------------ C2
\* C2: on the extended 150/120/100 arm at (0,0), compute(200, 0) returns
\* True with the last joint within 0.01 of (200,0) and every segment
\* still at its length.
C2_Scenario ==
    (pc = "loop" /\ ScenarioArm(pre) /\ Target = Vec(200, 0))
    ~> (Returned /\ ret = "True" /\ WithinMargin(segments[N].point, Vec(200, 0))
            /\ LengthsOf(segments) = <<150, 120, 100>> /\ LengthsPreserved)

\* ------------------------------------------------------------------ C3
\* C3: a compute whose target is at distance >= armLength from the base
\* returns False at once (it never enters the loop) and leaves the base
\* point, the segment list with every joint, and armLength as they were.
C3_UnreachableNoOp ==
    (call.op \in {"compute", "iterate"}
        /\ (pre.armLength <= 0
            \/ DistSq(pre.basePoint, Target) >= pre.armLength * pre.armLength))
    => /\ Returned
       /\ ret = "False"
       /\ segments = pre.segments
       /\ armLength = pre.armLength
       /\ basePoint = pre.basePoint

\* the scenario's compute(500, 0) has returned
C3_Witness ==
    /\ Returned /\ ret = "False"
    /\ Target = Vec(500, 0)
    /\ ScenarioArm(pre) /\ ScenarioArm(Fields)

\* ------------------------------------------------------------------ C4
\* C4: after every completed sweep and after every compute that returned,
\* each joint of an arm with positive lengths is at exactly its segment's
\* length from the joint before it (the base for the first).
C4_LengthPreservation ==
    ((Swept \/ Returned) /\ AllPositive(segments)) => LengthsPreserved

\* ------------------------------------------------------------------ C5
\* C5: armLength is the sum of the appended lengths; isReachable is True
\* iff distance(base, target) < armLength, so False at distance exactly
\* armLength; a compute that returned, returned isReachable of the state
\* it was called in.
C5_Reachability ==
    /\ armLength = SumLengths(segments)
    /\ call.op = "isReachable" =>
          (ret = "True" <=> (armLength > 0
                             /\ DistSq(basePoint, Target) < armLength * armLength))
    /\ Returned =>
          (ret = "True" <=> (pre.armLength > 0
                             /\ DistSq(pre.basePoint, Target)
                                    < pre.armLength * pre.armLength))
          /\ ret \in {"True", "False"}

\* a target at distance exactly armLength was found not reachable
C5_Witness ==
    /\ call.op = "isReachable" /\ ret = "False"
    /\ armLength > 0
    /\ DistanceIs(basePoint, Target, armLength)

\* ------------------------------------------------------------------ C6
\* C6: addSegment with a length <= 0 raises InvalidConfiguration and
\* leaves the segment count and armLength as they were.
C6_RejectsNonPositive ==
    (call.op = "addSegment" /\ call.x <= 0)
    => /\ ret = "InvalidConfiguration"
       /\ Len(segments) = Len(pre.segments)
       /\ armLength = pre.armLength

\* ------------------------------------------------------------------ C7
\* C7: no joint of an arm with positive lengths is ever undefined (NaN):
\* a sweep that has to normalize a zero vector substitutes a direction.
C7_NoUndefinedJoint ==
    AllPositive(segments) => \A i \in 1..N : ~segments[i].point.nan

\* ------------------------------------------------------------------ C8
\* C8: inMarginOfError and compute on a solver without segments fail
\* with an error instead of returning a boolean.
C8_EmptyChainFails ==
    (Len(pre.segments) = 0 /\ call.op \in {"inMarginOfError", "compute"})
    => ret \notin {"True", "False", "none", "None"}

\* ------------------------------------------------------------------ C9
\* C9: a compute that directly follows a compute of the same target that
\* returned True makes no further sweep, returns True, and leaves every
\* joint within marginOfError of where the first call left it.
C9_Idempotent ==
    (call.op \in {"compute", "iterate"}
        /\ prevTrue.valid /\ prevTrue.x = call.x /\ prevTrue.y = call.y)
    => /\ call.op = "compute"
       /\ pc = "loop" => inMarginOfError(call.x, call.y)
       /\ Returned => ret = "True"
       /\ \A i \in 1..N : WithinMargin(segments[i].point, pre.segments[i].point)

\* on the 150/120/100 arm at (0,0) the second compute(170, 0) has returned,
\* after a first one that folded the last segment back to reach (170,0)
C9_Witness ==
    /\ Returned /\ ret = "True"
    /\ Target = Vec(170, 0)
    /\ prevTrue.valid /\ prevTrue.x = call.x /\ prevTrue.y = call.y
    /\ basePoint = Vec(0, 0)
    /\ LengthsOf(segments) = <<150, 120, 100>>
    /\ Pose(segments) = <<Vec(150, 0), Vec(270, 0), Vec(170, 0)>>

\* ----------------------------------------------------------------- C10
\* C10: after a sweep of an arm of N >= 1 positive lengths the last joint
\* is J(N-1) - length_N * unit(J(N-1) - target), and the first joint is
\* at length_1 from the base.
C10_LastJointTowardTarget ==
    (Swept /\ N >= 1 /\ AllPositive(segments))
    => /\ LET jn == segments[N].point
              want == VSub(Joint(segments, basePoint, N - 1),
                           VScale(unitVector(VSub(Joint(segments, basePoint, N - 1),
                                                  Target)),
                                  segments[N].length))
          IN  ~jn.nan /\ ~want.nan /\ jn = want
       /\ DistanceIs(segments[1].point, basePoint, segments[1].length)

====
